---- MODULE Spec2Model ----
(***************************************************************************)
(* Model of the ACAS vector indexing and similarity-search core:           *)
(*   - VectorService (src/src/services/vector_service.py): the table       *)
(*     code_embeddings, index_code_snippet, search_similar_code with its   *)
(*     accelerated and fallback paths, get_project_stats,                  *)
(*     delete_project_embeddings;                                          *)
(*   - NomicEmbeddingService (src/src/services/embedding_service.py):      *)
(*     embed_single with its cache, embed_batch, embed_code_snippet;       *)
(*   - split_code_into_chunks (same file);                                 *)
(*   - LeoGatekeeperService and process_operation_request                  *)
(*     (src/src/services/leo_service.py) with the endpoints of             *)
(*     src/src/main.py that call them;                                     *)
(*   - AuthMiddleware.check_project_access and RateLimiter                 *)
(*     (src/src/middleware/auth_middleware.py).                            *)
(* The specifications of the module share its variables: Spec (the vector  *)
(* store and the search endpoint), SpecProbe (the extension probes),       *)
(* SpecBatch (batch_index_files), SpecIndex (overlapping index calls),     *)
(* SpecGate (the gatekeeper), SpecRate (the rate limiter), SpecAccess      *)
(* (project access), SpecEmbed (one embedding service running embed_batch  *)
(* calls) and SpecChunk (the chunker applied to bounded texts).            *)
(***************************************************************************)
EXTENDS Integers, Sequences, FiniteSets, TLC

VARIABLES
    store,            \* rows of the table code_embeddings (a set: a table has no order)
    embedding_cache,  \* NomicEmbeddingService.embedding_cache: text hash -> vector
    ret,              \* the last completed VectorService call and what it returned
    batch,            \* the running embed_batch call: its arguments, loop index, results
                      \* (SpecBatch: the running batch_index_files call)
    calls,            \* the embed_single calls of that embed_batch call, one per text
                      \* (SpecProbe: the extension probes made so far, one per entry;
                      \* SpecIndex: the index_code_snippet calls running side by side)
    chunker,          \* one split_code_into_chunks call: its arguments and result
    requests          \* RateLimiter.requests: user_id -> endpoint -> accepted timestamps

vars == <<store, embedding_cache, ret, batch, calls, chunker, requests>>

----------------------------------------------------------------------------
(* Bounds of the model.                                                    *)

\* last_modified stamps are drawn from 0..MaxTime
MaxTime == 1
\* search limits are drawn from -1..MaxLimit
MaxLimit == 2
\* embed_batch is called with at most MaxTexts texts
MaxTexts == 3
\* embed_batch is called with batch_size in -1..MaxBatchSize
MaxBatchSize == 2
\* the chunker is applied to texts of at most MaxCodeLen characters
MaxCodeLen == 10
\* the chunker is applied with max_tokens in 1..MaxTokens
MaxTokens == 2
\* SpecProbe follows a service over at most MaxSearches searches
MaxSearches == 3
\* batch_index_files is called with at most MaxFiles file entries
MaxFiles == 2
\* SpecRate follows a RateLimiter over at most MaxChecks calls
MaxChecks == 4
\* time.time() takes the values 0..MaxClock
MaxClock == 3
\* the limits of RateLimiter, scaled down: ScaledCount stands for the 100
\* requests of 'search' and of the default, ScaledWindow for the window of
\* 3600 seconds
ScaledCount == 2
ScaledWindow == 2

----------------------------------------------------------------------------
(* Values.                                                                 *)

\* Python's None where a string is expected (function_name)
None == "None"

\* a falsy filter argument (None or the empty string): "if project_id:" and
\* "if language:" treat both alike
NoProject == <<>>
NoLanguage == ""

\* Optional[List[float]]: None, or a list of numbers
NoVector == [none |-> TRUE, v |-> <<>>]
Some(v) == [none |-> FALSE, v |-> v]

\* Python truthiness of an Optional[List[float]]: None and [] are both falsy
Truthy(e) == ~e.none /\ Len(e.v) > 0

\* project ids and file paths are strings, kept as sequences of characters so
\* that the f-string building file_id is a real concatenation
ProjP == <<"p">>
ProjPA == <<"p", ":", "a">>
PathA == <<"a">>
PathAA == <<"a", ":", "a">>
Projects == {ProjP, ProjPA}

Code1 == <<"x">>
Code2 == <<"y", "y">>

\* metadata dicts: empty (the endpoints' default) and one with every key read
NoMeta == [k \in {} |-> None]
FullMeta == [file_type |-> "test", function_name |-> "f", context_info |-> "ctx"]

\* the index requests the model issues: the first two write the same key with
\* different payloads, the first and the third are the same file in two
\* projects (the same text to embed), the third and the fourth build the same
\* file_id from different (project_id, file_path) pairs, the fifth is a third
\* key whose snippet embeds close to the query
IndexRequests ==
    { [project_id |-> ProjP,  file_path |-> PathA,  content |-> Code1, language |-> "python",     metadata |-> NoMeta],
      [project_id |-> ProjP,  file_path |-> PathA,  content |-> Code2, language |-> "javascript", metadata |-> FullMeta],
      [project_id |-> ProjPA, file_path |-> PathA,  content |-> Code1, language |-> "python",     metadata |-> FullMeta],
      [project_id |-> ProjP,  file_path |-> PathAA, content |-> Code1, language |-> "python",     metadata |-> NoMeta],
      [project_id |-> ProjPA, file_path |-> PathAA, content |-> Code2, language |-> "javascript", metadata |-> NoMeta] }

QueryTexts == {<<"q">>}
ProjectFilters == {NoProject, ProjP}
LanguageFilters == {NoLanguage, "python"}
Limits == -1 .. MaxLimit
\* thresholds as exact fractions num/den, den > 0: 0.0, 0.7 (the default), 1.0
Thresholds == {[num |-> 0, den |-> 1], [num |-> 7, den |-> 10], [num |-> 1, den |-> 1]}
Times == 0 .. MaxTime

\* the /api/code/search endpoint: the limit and threshold fields of a
\* CodeSearchRequest (a field left out, or null, counts as 0 under "or")
RequestLimits == {-1, 0, 5}
RequestThresholds == {[num |-> 0, den |-> 1], [num |-> 7, den |-> 10], [num |-> 3, den |-> 2]}
DefaultLimit == 10
DefaultThreshold == [num |-> 7, den |-> 10]

----------------------------------------------------------------------------
(* Cosine similarity, exact: the value dot / sqrt(nsq).                    *)

Dot(a, b) == a[1] * b[1] + a[2] * b[2]
NormSq(a) == Dot(a, a)

\* np.dot(q, v) / (norm(q) * norm(v)), and 1 - vec_distance_cosine(v, q)
CosineSimilarity(q, v) == [dot |-> Dot(q, v), nsq |-> NormSq(q) * NormSq(v)]

\* a.dot / sqrt(a.nsq) >= b.dot / sqrt(b.nsq), for nsq > 0
SimGE(a, b) ==
    IF a.dot >= 0
      THEN b.dot <= 0 \/ a.dot * a.dot * b.nsq >= b.dot * b.dot * a.nsq
      ELSE b.dot < 0 /\ a.dot * a.dot * b.nsq <= b.dot * b.dot * a.nsq

SimEq(a, b) == SimGE(a, b) /\ SimGE(b, a)

\* the threshold t as a similarity value
ThresholdValue(t) == [dot |-> t.num, nsq |-> t.den * t.den]

\* similarity >= threshold
MeetsThreshold(sim, t) == SimGE(sim, ThresholdValue(t))

----------------------------------------------------------------------------
(* The embedding service as VectorService uses it.                         *)

\* embed_code_snippet's formatted text: "Language: ..\nContext: ..\nCode:\n.."
FormatSnippet(code, language, context) == <<"Language", language, "Context", context, "Code", code>>

\* hashlib.md5(text).hexdigest(): one digest per text (no collision among the
\* few texts of the model)
TextHash(text) == <<"md5", text>>

\* the vector the provider answers for a text (result['data'][0]['embedding'])
ProviderEmbedding(text) ==
    IF text \in QueryTexts THEN <<1, 1>>
    ELSE IF text[6] = Code2 THEN <<1, 1>>
    ELSE IF text[4] = <<"File", PathAA>> THEN <<-1, 2>>
    ELSE <<1, 0>>

\* what the provider call of embed_single can end in: a 200 response whose
\* body holds result['data'][0]['embedding']; another status; session.post
\* raising (transport error); asyncio.TimeoutError after 30 s; response.json()
\* or the subscripts raising (the last three reach "except Exception")
ProviderOutcomes == {"ok", "status", "exception", "timeout", "unparseable"}

StoreAnswerOnFailure(cache, text, answer) ==
    [result |-> answer,
     cache  |-> [h \in DOMAIN cache \cup {TextHash(text)} |->
                   IF h = TextHash(text) THEN answer.v ELSE cache[h]]]
\* embed_single after the provider call: answer is the list found at
\* result['data'][0]['embedding'] of a 200 response, or NoVector for any
\* failure; the list is cached as it came and returned
StoreAnswer(cache, text, answer) ==
    IF answer.none
      THEN [result |-> NoVector, cache |-> cache]
      ELSE [result |-> answer,
            cache  |-> [h \in DOMAIN cache \cup {TextHash(text)} |->
                          IF h = TextHash(text) THEN answer.v ELSE cache[h]]]

\* embed_single, start to return, as one step: [result, cache]
EmbedSingleMiss(cache, text, outcome) ==
    StoreAnswer(cache, text, IF outcome = "ok" THEN Some(ProviderEmbedding(text)) ELSE NoVector)

EmbedSingle(cache, text, outcome) ==
    IF TextHash(text) \in DOMAIN cache
      THEN [result |-> Some(cache[TextHash(text)]), cache |-> cache]
      ELSE EmbedSingleMiss(cache, text, outcome)

EmbedCodeSnippet(cache, code, language, context, outcome) ==
    EmbedSingle(cache, FormatSnippet(code, language, context), outcome)

----------------------------------------------------------------------------
(* The table code_embeddings and the statements run on it.                 *)

\* json.dumps / json.loads of a value the model keeps abstract
JsonDumps(x) == <<"json", x>>
JsonLoads(s) == s[2]

\* the empty dict {}; json.dumps({}) is the literal "{}" the code binds
EmptyDict == "{}"

\* metadata.get(key, default)
DictGet(m, key, default) == IF key \in DOMAIN m THEN m[key] ELSE default

\* a dict is truthy when it is not empty (None is falsy too)
DictTruthy(m) == DOMAIN m # {}

\* file_id = f"{project_id}:{file_path}"
FileId(project_id, file_path) == project_id \o <<":">> \o file_path

\* the row index_code_snippet binds to its INSERT statement
IndexRow(req, embedding, now) ==
    [ file_id        |-> FileId(req.project_id, req.file_path),
      code_embedding |-> JsonDumps(embedding),
      file_type      |-> IF DictTruthy(req.metadata)
                           THEN DictGet(req.metadata, "file_type", req.language)
                           ELSE req.language,
      language       |-> req.language,
      project_id     |-> req.project_id,
      last_modified  |-> now,
      source_code    |-> req.content,
      file_path      |-> req.file_path,
      function_name  |-> IF DictTruthy(req.metadata)
                           THEN DictGet(req.metadata, "function_name", None)
                           ELSE None,
      context_info   |-> IF DictTruthy(req.metadata)
                           THEN JsonDumps(DictGet(req.metadata, "context_info", EmptyDict))
                           ELSE JsonDumps(EmptyDict) ]

\* INSERT OR REPLACE on the primary key file_id
InsertAppend(table, row) == table \cup {row}
InsertOrReplace(table, row) == {r \in table : r.file_id # row.file_id} \cup {row}

\* DELETE FROM code_embeddings WHERE project_id = ?
DeleteOneWhereProject(table, project_id) ==
    IF \E r \in table : r.project_id = project_id
      THEN table \ {CHOOSE r \in table : r.project_id = project_id}
      ELSE table
DeleteEveryRow(table, project_id) == {}
DeleteWhereProject(table, project_id) == {r \in table : r.project_id # project_id}

\* the WHERE clause both search paths build: a falsy filter adds no clause
MatchesProjectOnly(r, project_id, language) ==
    project_id # NoProject => r.project_id = project_id
Matches(r, project_id, language) ==
    /\ (project_id # NoProject => r.project_id = project_id)
    /\ (language # NoLanguage => r.language = language)

SelectWhere(table, project_id, language) == {r \in table : Matches(r, project_id, language)}

----------------------------------------------------------------------------
(* Sequences.                                                              *)

\* every order the rows of a set can be read in
Perms(S) ==
    {s \in [1 .. Cardinality(S) -> S] : \A i, j \in DOMAIN s : i # j => s[i] # s[j]}

RECURSIVE SeqFilter(_, _)
SeqFilter(s, keep) ==
    IF s = <<>> THEN <<>>
    ELSE IF Head(s) \in keep THEN <<Head(s)>> \o SeqFilter(Tail(s), keep)
    ELSE SeqFilter(Tail(s), keep)

Min(a, b) == IF a <= b THEN a ELSE b
Max(a, b) == IF a >= b THEN a ELSE b

\* SQL LIMIT n: a negative n is no limit
SqlLimit(s, n) == IF n < 0 THEN s ELSE SubSeq(s, 1, Min(n, Len(s)))

\* Python s[:n]: a negative n counts from the end
PySlicePrefix(s, n) ==
    IF n < 0 THEN SubSeq(s, 1, Max(Len(s) + n, 0)) ELSE SubSeq(s, 1, Min(n, Len(s)))

----------------------------------------------------------------------------
(* search_similar_code: candidates are [row, similarity] pairs.            *)

Candidate(r, q) == [row |-> r, similarity |-> CosineSimilarity(q, JsonLoads(r.code_embedding))]

\* the dict appended to results for a candidate
ResultDict(c) ==
    [ file_path     |-> c.row.file_path,
      content       |-> c.row.source_code,
      language      |-> c.row.language,
      function_name |-> c.row.function_name,
      context_info  |-> JsonLoads(c.row.context_info),
      similarity    |-> c.similarity ]

Results(cands) == [i \in DOMAIN cands |-> ResultDict(cands[i])]

\* "if similarity >= threshold: results.append(..)" over a sequence of candidates
ThresholdFilter(cands, threshold) ==
    SeqFilter(cands, {c \in {cands[i] : i \in DOMAIN cands} : MeetsThreshold(c.similarity, threshold)})

\* ORDER BY distance, distance = 1 - similarity: every order of the candidates
\* that is non-decreasing in distance (SQL fixes no order among equal keys)
OrderByDistance(cs) ==
    {s \in Perms(cs) : \A i, j \in DOMAIN s : i < j => SimGE(s[i].similarity, s[j].similarity)}

\* the accelerated path: ORDER BY distance LIMIT ?, then the threshold test
\* on each fetched row
AccelCandidates(table, q, project_id, language, limit, threshold) ==
    {ThresholdFilter(SqlLimit(s, limit), threshold) :
        s \in OrderByDistance({Candidate(r, q) : r \in SelectWhere(table, project_id, language)})}

\* list.sort(key=similarity, reverse=True): stable, descending
RECURSIVE InsertDesc(_, _)
InsertDesc(sorted, c) ==
    IF sorted = <<>> THEN <<c>>
    ELSE IF SimGE(Head(sorted).similarity, c.similarity) THEN <<Head(sorted)>> \o InsertDesc(Tail(sorted), c)
    ELSE <<c>> \o sorted

RECURSIVE SortDescending(_)
SortDescending(cands) ==
    IF cands = <<>> THEN <<>>
    ELSE InsertDesc(SortDescending(SubSeq(cands, 1, Len(cands) - 1)), cands[Len(cands)])

\* the fallback path on the rows in the order the SELECT returned them
FallbackNoFilter(scan, limit, threshold) == PySlicePrefix(SortDescending(scan), limit)
FallbackOnScan(scan, limit, threshold) ==
    PySlicePrefix(SortDescending(ThresholdFilter(scan, threshold)), limit)

\* the fallback path: the SELECT has no ORDER BY, so the rows come in any order
FallbackCandidates(table, q, project_id, language, limit, threshold) ==
    {FallbackOnScan(scan, limit, threshold) :
        scan \in Perms({Candidate(r, q) : r \in SelectWhere(table, project_id, language)})}

\* what one search can select, by the path taken
SearchCandidates(path, table, q, project_id, language, limit, threshold) ==
    IF path = "accelerated" THEN AccelCandidates(table, q, project_id, language, limit, threshold)
    ELSE IF path = "fallback" THEN FallbackCandidates(table, q, project_id, language, limit, threshold)
    ELSE {<<>>}

\* vec0 loads and the query runs; load_extension or the query raises
\* OperationalError; the fallback SELECT raises too ("except Exception")
SearchPaths == {"accelerated", "fallback", "failed"}

\* "if not query_embedding: return []" comes before sqlite3.connect: with no
\* query vector nothing is read from the table
SearchSelectDefaultVector(e, path, table, project_id, language, limit, threshold) ==
    FallbackCandidates(table, IF Truthy(e.result) THEN e.result.v ELSE <<1, 0>>,
                       project_id, language, limit, threshold)
SearchSelect(e, path, table, project_id, language, limit, threshold) ==
    IF Truthy(e.result)
      THEN SearchCandidates(path, table, e.result.v, project_id, language, limit, threshold)
      ELSE {<<>>}

\* the path a search ends on: none is entered without a query vector
PathTaken(e, path) == IF Truthy(e.result) THEN path ELSE "no embedding"

----------------------------------------------------------------------------
(* get_project_stats.                                                      *)

RECURSIVE SumLength(_)
SumLength(rows) ==
    IF rows = {} THEN 0
    ELSE LET r == CHOOSE x \in rows : TRUE
         IN Len(r.source_code) + SumLength(rows \ {r})

\* MAX(last_modified); NULL (Python None) on no rows is kept as -1
NoStamp == -1
MaxStamp(rows) ==
    IF rows = {} THEN NoStamp
    ELSE CHOOSE t \in {r.last_modified : r \in rows} : \A r \in rows : r.last_modified <= t

GetProjectStatsAllRows(table, project_id) ==
    [ total_files  |-> Cardinality(table),
      languages    |-> Cardinality({r.language : r \in table}),
      total_chars  |-> SumLength(table),
      last_indexed |-> MaxStamp(table),
      status       |-> IF Cardinality(table) > 0 THEN "completed" ELSE "empty" ]
GetProjectStats(table, project_id) ==
    LET rows == {r \in table : r.project_id = project_id}
    IN [ total_files  |-> Cardinality(rows),
         languages    |-> Cardinality({r.language : r \in rows}),
         total_chars  |-> SumLength(rows),
         last_indexed |-> MaxStamp(rows),
         status       |-> IF Cardinality(rows) > 0 THEN "completed" ELSE "empty" ]

\* dict(cursor.fetchall()) of "SELECT col, COUNT(*) ... GROUP BY col"
GroupCount(table, col) ==
    [x \in {r[col] : r \in table} |-> Cardinality({r \in table : r[col] = x})]

\* get_all_stats: the four aggregates, or the zeroed record of the except branch
GetAllStats(table, storage_ok) ==
    IF storage_ok
      THEN [ total_embeddings |-> Cardinality(table),
             file_types       |-> GroupCount(table, "file_type"),
             languages        |-> GroupCount(table, "language"),
             projects         |-> GroupCount(table, "project_id") ]
      ELSE [ total_embeddings |-> 0,
             file_types       |-> GroupCount({}, "file_type"),
             languages        |-> GroupCount({}, "language"),
             projects         |-> GroupCount({}, "project_id") ]

----------------------------------------------------------------------------
(* search_code, the endpoint in front of search_similar_code.              *)

\* limit=request.limit or 10
LimitOrDefault(limit) == IF limit = 0 THEN DefaultLimit ELSE limit

\* threshold=request.threshold or 0.7
ThresholdOrDefault(threshold) == IF threshold.num = 0 THEN DefaultThreshold ELSE threshold

\* the response body
SearchResponse(results) == [results |-> results, total |-> Len(results)]

----------------------------------------------------------------------------
(* The values the variables of the other specifications rest at.           *)

NoBatch == [pc |-> "idle", texts |-> <<>>, batch_size |-> 1, i |-> 0, results |-> <<>>]
NoCall == [op |-> "idle", arg |-> None, ok |-> TRUE, out |-> None]
NoChunker == [pc |-> "idle", code |-> <<>>, max_tokens |-> 1, chunks |-> <<>>]
NoRequests == [user_id \in {} |-> <<>>]

----------------------------------------------------------------------------
(* Spec: one VectorService on its database file.                           *)

Init ==
    /\ store = {}
    /\ embedding_cache = [h \in {} |-> <<>>]
    /\ ret = NoCall
    /\ batch = NoBatch
    /\ calls = <<>>
    /\ chunker = NoChunker
    /\ requests = NoRequests

\* the provider answers a call of embed_single can meet: none is made on a hit
OutcomesFor(cache, text) ==
    IF TextHash(text) \in DOMAIN cache THEN {"ok"} ELSE ProviderOutcomes

\* the table after index_code_snippet: the row is in it once conn.commit()
\* has run; "if not embedding: return False" and every sqlite3 error (caught,
\* the open transaction is dropped with the connection) end the call before
WriteRowUncommitted(table, row, committed) == InsertOrReplace(table, row)
WriteRow(table, row, committed) == IF committed THEN InsertOrReplace(table, row) ELSE table

\* index_code_snippet(file_path, content, language, project_id, metadata):
\* outcome is the provider's answer on a cache miss, storage_ok whether the
\* sqlite3 calls go through, now is int(datetime.now().timestamp())
IndexOutcome(table, cache, req, outcome, storage_ok, now) ==
    LET e == EmbedCodeSnippet(cache, req.content, req.language,
                              <<"File", req.file_path>>, outcome)
        row == IndexRow(req, e.result.v, now)
        written == Truthy(e.result) /\ storage_ok
    IN [cache |-> e.cache, table |-> WriteRow(table, row, written), ok |-> written, row |-> row]

IndexCodeSnippet(req, outcome, storage_ok, now) ==
    LET r == IndexOutcome(store, embedding_cache, req, outcome, storage_ok, now)
    IN /\ ret = NoCall
       /\ embedding_cache' = r.cache
       /\ store' = r.table
       /\ ret' = [op |-> "index", arg |-> req, ok |-> r.ok,
                  out |-> IF r.ok
                            THEN [row |-> r.row,
                                  replaced |-> {x \in store : x.file_id = r.row.file_id}]
                            ELSE None]
       /\ UNCHANGED <<batch, calls, chunker, requests>>

\* search_similar_code(query, project_id, language, limit, threshold): what
\* it does to the cache and what it returns
SearchStep(query, project_id, language, limit, threshold, outcome, path) ==
    LET e == EmbedSingle(embedding_cache, query, outcome)
    IN /\ ret = NoCall
       /\ embedding_cache' = e.cache
       /\ \E cands \in SearchSelect(e, path, store, project_id, language, limit, threshold) :
            ret' = [op |-> "search",
                    arg |-> [project_id |-> project_id, language |-> language,
                             limit |-> limit, threshold |-> threshold,
                             query_embedding |-> e.result,
                             path |-> PathTaken(e, path)],
                    ok |-> TRUE,
                    out |-> Results(cands)]

SearchSimilarCode(query, project_id, language, limit, threshold, outcome, path) ==
    /\ SearchStep(query, project_id, language, limit, threshold, outcome, path)
    /\ UNCHANGED <<store, batch, calls, chunker, requests>>

\* get_project_stats(project_id): a sqlite3 error is not caught here
GetProjectStatsCall(project_id, storage_ok) ==
    /\ ret = NoCall
    /\ ret' = [op |-> "stats", arg |-> project_id, ok |-> storage_ok,
               out |-> IF storage_ok THEN GetProjectStats(store, project_id) ELSE None]
    /\ UNCHANGED <<store, embedding_cache, batch, calls, chunker, requests>>

\* delete_project_embeddings(project_id)
DeleteProjectEmbeddings(project_id, storage_ok) ==
    /\ ret = NoCall
    /\ store' = IF storage_ok THEN DeleteWhereProject(store, project_id) ELSE store
    /\ ret' = [op |-> "delete", arg |-> project_id, ok |-> storage_ok,
               out |-> {r \in store : r.project_id = project_id}]
    /\ UNCHANGED <<embedding_cache, batch, calls, chunker, requests>>

\* get_all_stats(): a failing statement is caught and answered with zeros
GetAllStatsCall(storage_ok) ==
    /\ ret = NoCall
    /\ ret' = [op |-> "all_stats", arg |-> None, ok |-> TRUE,
               out |-> GetAllStats(store, storage_ok)]
    /\ UNCHANGED <<store, embedding_cache, batch, calls, chunker, requests>>

\* search_code(request, user): access is whether firebase_service.get_project
\* returned the project for this user (asked only when project_id is given)
SearchCode(request, access, outcome, path) ==
    /\ ret = NoCall
    /\ IF request.project_id # NoProject /\ ~access
         THEN /\ ret' = [op |-> "search_code",
                         arg |-> [request |-> request, executed |-> FALSE],
                         ok |-> FALSE, out |-> "404"]
              /\ UNCHANGED embedding_cache
         ELSE LET limit == LimitOrDefault(request.limit)
                  threshold == ThresholdOrDefault(request.threshold)
                  e == EmbedSingle(embedding_cache, request.query, outcome)
              IN /\ embedding_cache' = e.cache
                 /\ \E cands \in SearchSelect(e, path, store, request.project_id,
                                               request.language, limit, threshold) :
                      ret' = [op |-> "search_code",
                              arg |-> [request |-> request, executed |-> TRUE,
                                       limit |-> limit, threshold |-> threshold,
                                       query_embedding |-> e.result,
                                       path |-> PathTaken(e, path)],
                              ok |-> TRUE,
                              out |-> SearchResponse(Results(cands))]
    /\ UNCHANGED <<store, batch, calls, chunker, requests>>

Index == \E req \in IndexRequests :
    \E outcome \in OutcomesFor(embedding_cache,
                                FormatSnippet(req.content, req.language, <<"File", req.file_path>>)) :
      \/ \E now \in Times : IndexCodeSnippet(req, outcome, TRUE, now)
      \/ IndexCodeSnippet(req, outcome, FALSE, 0)

Search == \E query \in QueryTexts, project_id \in ProjectFilters, language \in LanguageFilters,
             limit \in Limits, threshold \in Thresholds :
    \E outcome \in OutcomesFor(embedding_cache, query) :
    \E path \in (IF outcome = "ok" THEN SearchPaths ELSE {"failed"}) :
    SearchSimilarCode(query, project_id, language, limit, threshold, outcome, path)

Stats == \E project_id \in Projects, storage_ok \in BOOLEAN :
    GetProjectStatsCall(project_id, storage_ok)

Delete == \E project_id \in Projects, storage_ok \in BOOLEAN :
    DeleteProjectEmbeddings(project_id, storage_ok)

AllStats == \E storage_ok \in BOOLEAN : GetAllStatsCall(storage_ok)

SearchEndpoint ==
    \E query \in QueryTexts, project_id \in ProjectFilters, language \in LanguageFilters,
       limit \in RequestLimits, threshold \in RequestThresholds :
    \E access \in (IF project_id = NoProject THEN {TRUE} ELSE BOOLEAN) :
    \E outcome \in (IF access THEN OutcomesFor(embedding_cache, query) ELSE {"ok"}) :
    \E path \in (IF access /\ outcome = "ok" THEN SearchPaths ELSE {"failed"}) :
    SearchCode([query |-> query, project_id |-> project_id, language |-> language,
                limit |-> limit, threshold |-> threshold], access, outcome, path)

\* the caller takes the returned value; the service is ready for the next call
Return ==
    /\ ret # NoCall
    /\ ret' = NoCall
    /\ UNCHANGED <<store, embedding_cache, batch, calls, chunker, requests>>

Next == Index \/ Search \/ SearchEndpoint \/ Stats \/ AllStats \/ Delete \/ Return

Spec == Init /\ [][Next]_vars

----------------------------------------------------------------------------
(* Properties of the vector store, checked under Spec.                     *)

\* the text index_code_snippet has embedded for a request
SnippetText(req) == FormatSnippet(req.content, req.language, <<"File", req.file_path>>)

\* the search path the last search did not take
OtherPath(path) == IF path = "accelerated" THEN "fallback" ELSE "accelerated"

\* C1: for the same rows, query vector, filters, limit and threshold the
\* accelerated path and the fallback path return the same sequence of records:
\* whatever one path returned, the other path can return nothing else.
C1_PathsReturnSameSequence ==
    (ret.op = "search" /\ ret.arg.path \in {"accelerated", "fallback"}) =>
        \A cands \in SearchCandidates(OtherPath(ret.arg.path), store, ret.arg.query_embedding.v,
                                       ret.arg.project_id, ret.arg.language,
                                       ret.arg.limit, ret.arg.threshold) :
            Results(cands) = ret.out

\* C1, the part of it the code keeps: with a limit >= 0 and no two matching
\* rows of equal similarity, both paths return the same sequence.
NoTies(table, q, project_id, language) ==
    \A r1, r2 \in SelectWhere(table, project_id, language) :
        r1 # r2 => ~SimEq(Candidate(r1, q).similarity, Candidate(r2, q).similarity)

C1_PathsAgreeWithoutTies ==
    (/\ ret.op = "search" /\ ret.arg.path \in {"accelerated", "fallback"}
     /\ ret.arg.limit >= 0
     /\ NoTies(store, ret.arg.query_embedding.v, ret.arg.project_id, ret.arg.language)) =>
        \A cands \in SearchCandidates(OtherPath(ret.arg.path), store, ret.arg.query_embedding.v,
                                       ret.arg.project_id, ret.arg.language,
                                       ret.arg.limit, ret.arg.threshold) :
            Results(cands) = ret.out

\* C2: every result of a search has similarity >= threshold and the list is
\* non-increasing in similarity, on either path.
C2_ThresholdAndOrder ==
    ret.op = "search" =>
        /\ \A i \in DOMAIN ret.out :
              SimGE(ret.out[i].similarity,
                    [dot |-> ret.arg.threshold.num, nsq |-> ret.arg.threshold.den * ret.arg.threshold.den])
        /\ \A i, j \in DOMAIN ret.out :
              i < j => SimGE(ret.out[i].similarity, ret.out[j].similarity)

\* a fallback search over two rows, one of them below the threshold, and an
\* accelerated search returning two results of different similarity
C2_Witness ==
    /\ ret.op = "search"
    /\ ret.arg.path = "fallback"
    /\ Len(ret.out) = 2
    /\ ~SimEq(ret.out[1].similarity, ret.out[2].similarity)
    /\ \E r \in store : r.project_id = ProjPA

\* C3: after a successful index of a key that was already stored, the table
\* holds exactly one row of that (project_id, file_path), it carries this
\* call's vector, content, language and metadata, and the replaced row is gone.
C3_UpsertReplaces ==
    (ret.op = "index" /\ ret.ok) =>
        LET req == ret.arg
            mine == {r \in store : r.project_id = req.project_id /\ r.file_path = req.file_path}
        IN /\ Cardinality(mine) = 1
           /\ Cardinality({r \in store : r.file_id = FileId(req.project_id, req.file_path)}) = 1
           /\ \A r \in mine :
                 /\ JsonLoads(r.code_embedding) = ProviderEmbedding(SnippetText(req))
                 /\ r.source_code = req.content
                 /\ r.language = req.language
                 /\ r.file_type = (IF req.metadata = NoMeta THEN req.language ELSE req.metadata.file_type)
                 /\ r.function_name = (IF req.metadata = NoMeta THEN None ELSE req.metadata.function_name)
                 /\ JsonLoads(r.context_info) =
                        (IF req.metadata = NoMeta THEN EmptyDict ELSE req.metadata.context_info)
           /\ \A old \in ret.out.replaced : old \in store => old \in mine

\* the second index of a key, with another vector and another payload
C3_Witness ==
    /\ ret.op = "index" /\ ret.ok
    /\ \E old \in ret.out.replaced :
          /\ old.project_id = ret.arg.project_id /\ old.file_path = ret.arg.file_path
          /\ old.code_embedding # ret.out.row.code_embedding
          /\ old.source_code # ret.arg.content
          /\ old.language # ret.arg.language
          /\ old.function_name # ret.out.row.function_name

\* C10: after delete_project_embeddings(p) returned True no row of p is left:
\* get_project_stats(p) counts 0 with status 'empty' and no search, on any
\* path and with any arguments, selects a row of p.
C10_DeleteEmptiesProject ==
    (ret.op = "delete" /\ ret.ok) =>
        /\ GetProjectStats(store, ret.arg).total_files = 0
        /\ GetProjectStats(store, ret.arg).status = "empty"
        /\ \A path \in SearchPaths, project_id \in ProjectFilters \cup Projects,
              language \in LanguageFilters, limit \in Limits, threshold \in Thresholds :
              \A cands \in SearchCandidates(path, store, ProviderEmbedding(<<"q">>), project_id,
                                             language, limit, threshold) :
                  \A i \in DOMAIN cands : cands[i].row.project_id # ret.arg

\* a successful delete that removed a row and left a row of the other project
C10_Witness ==
    /\ ret.op = "delete" /\ ret.ok
    /\ Cardinality(ret.out) = 1
    /\ store # {}

\* C11: a search whose query embedding failed returns the empty list and
\* raises nothing, enters neither search path (no statement is run on the
\* table) and leaves every row as it was.
C11_EmbeddingFailureGivesEmpty ==
    [][(ret = NoCall /\ ret'.op = "search" /\ ~Truthy(ret'.arg.query_embedding)) =>
          /\ ret'.out = <<>>
          /\ ret'.ok
          /\ ret'.arg.path = "no embedding"
          /\ store' = store]_vars

\* the provider failed on the query while the table held a row that every
\* threshold of the model lets through
C11_Witness ==
    /\ ret.op = "search"
    /\ ret.arg.query_embedding.none
    /\ ret.arg.project_id = NoProject /\ ret.arg.language = NoLanguage
    /\ ret.arg.limit > 0
    /\ \E r \in store : SimGE(Candidate(r, ProviderEmbedding(<<"q">>)).similarity,
                               [dot |-> 1, nsq |-> 1])
    /\ ret.out = <<>>

\* -1 <= similarity <= 1
InUnitRange(sim) == SimGE(sim, [dot |-> -1, nsq |-> 1]) /\ SimGE([dot |-> 1, nsq |-> 1], sim)

\* C15: with the provider and the storage working, a search request with
\* project_id p, threshold 0.0 and limit 5 returns every indexed record of p
\* (the model never holds more than 5) with a similarity in [-1,1], and the
\* reported total is the length of the result list.
C15_IndexedRecordIsFound ==
    (/\ ret.op = "search_code" /\ ret.arg.executed
     /\ ret.arg.request.project_id = ProjP
     /\ ret.arg.request.language = NoLanguage
     /\ ret.arg.request.threshold = [num |-> 0, den |-> 1]
     /\ ret.arg.request.limit = 5
     /\ ret.arg.path \in {"accelerated", "fallback"}) =>
        /\ \A r \in store : r.project_id = ProjP =>
              \E i \in DOMAIN ret.out.results :
                  /\ ret.out.results[i] = ResultDict(Candidate(r, ret.arg.query_embedding.v))
                  /\ InUnitRange(ret.out.results[i].similarity)
        /\ ret.out.total = Len(ret.out.results)

\* C15, the same search made on the service with the threshold 0.0 itself:
\* every record of p with a similarity >= 0 is returned.
C15_ServiceFindsRecord ==
    (/\ ret.op = "search"
     /\ ret.arg.project_id = ProjP /\ ret.arg.language = NoLanguage
     /\ ret.arg.threshold = [num |-> 0, den |-> 1]
     /\ ret.arg.limit = MaxLimit
     /\ ret.arg.path \in {"accelerated", "fallback"}) =>
        \A r \in store : r.project_id = ProjP =>
            \E i \in DOMAIN ret.out :
                /\ ret.out[i] = ResultDict(Candidate(r, ret.arg.query_embedding.v))
                /\ InUnitRange(ret.out[i].similarity)

\* a limit <= 0 or a threshold outside [0,1]
InvalidQuery(request) ==
    \/ request.limit <= 0
    \/ request.threshold.num < 0
    \/ request.threshold.num > request.threshold.den

\* C16: a search request with a limit <= 0 or a threshold outside [0,1] is
\* never run on the store, neither with the values given nor with others put
\* in their place.
C16_InvalidQueryRejected ==
    (ret.op = "search_code" /\ InvalidQuery(ret.arg.request)) =>
        ~(ret.arg.executed /\ ret.arg.path \in {"accelerated", "fallback"})

\* the (project_id, file_path) key of a row or of an index request
Key(x) == <<x.project_id, x.file_path>>

ReadOnlyOps == {"search", "search_code", "stats", "all_stats"}

\* C17: rows change only in index and delete calls: a search, a stats call
\* leaves every row as it was, a delete only removes rows, and an index call
\* adds or replaces the row of its own (project_id, file_path) and leaves the
\* rows of every other key as they were.
C17_OnlyIndexAndDeleteChangeRows ==
    [][ret = NoCall =>
          /\ ret'.op \in ReadOnlyOps => store' = store
          /\ ret'.op = "delete" => store' \subseteq store
          /\ ret'.op = "index" =>
                /\ \A r \in store' \ store : Key(r) = Key(ret'.arg)
                /\ \A r \in store \ store' : Key(r) = Key(ret'.arg)]_vars

\* C17 with the stored key file_id in place of (project_id, file_path): the
\* frame the code keeps.
C17_FrameByFileId ==
    [][ret = NoCall =>
          /\ ret'.op \in ReadOnlyOps => store' = store
          /\ ret'.op = "delete" => store' \subseteq store
          /\ ret'.op = "index" =>
                /\ \A r \in store' \ store : r.file_id = FileId(ret'.arg.project_id, ret'.arg.file_path)
                /\ \A r \in store \ store' : r.file_id = FileId(ret'.arg.project_id, ret'.arg.file_path)]_vars

\* a row without its last_modified stamp
Unstamped(r) == [f \in DOMAIN r \ {"last_modified"} |-> r[f]]

RECURSIVE ContentLengths(_)
ContentLengths(rows) ==
    IF rows = <<>> THEN 0 ELSE Len(Head(rows).source_code) + ContentLengths(Tail(rows))

\* C22: whatever index and delete calls came before, get_project_stats(p)
\* returns the number of stored rows of project p, the number of distinct
\* languages among them, the sum of their content lengths and the latest of
\* their last_modified stamps (none when p has no row), with status
\* 'completed' exactly when the count is above 0 and 'empty' otherwise.
C22_StatsMatchStore ==
    (ret.op = "stats" /\ ret.ok) =>
        LET mine == {r \in store : r.project_id = ret.arg}
        IN /\ ret.out.total_files = Cardinality(mine)
           /\ \E langs \in SUBSET {r.language : r \in store} :
                 /\ \A r \in store : r.language \in langs <=> (\E x \in mine : x.language = r.language)
                 /\ ret.out.languages = Cardinality(langs)
           /\ \A rows \in Perms(mine) : ret.out.total_chars = ContentLengths(rows)
           /\ IF mine = {}
                 THEN ret.out.last_indexed = NoStamp
                 ELSE /\ \E r \in mine : r.last_modified = ret.out.last_indexed
                      /\ \A r \in mine : r.last_modified <= ret.out.last_indexed
           /\ ret.out.status = "completed" <=> ret.out.total_files > 0
           /\ ret.out.status = "empty" <=> ret.out.total_files = 0

\* stats of a project holding two rows of different language, length and
\* stamp, while the other project holds a row too
C22_Witness ==
    /\ ret.op = "stats" /\ ret.ok
    /\ ret.out.total_files = 2 /\ ret.out.languages = 2
    /\ ret.out.total_chars = 3 /\ ret.out.last_indexed = 1
    /\ \E r \in store : r.project_id = ret.arg /\ r.last_modified = 0
    /\ \E r \in store : r.project_id # ret.arg

\* the rows a search is to choose from: those of the given project and
\* language (an absent filter lets every row through) whose similarity to
\* the query vector q reaches the threshold
Qualifying(table, q, project_id, language, threshold) ==
    {r \in table :
        /\ (project_id = NoProject \/ r.project_id = project_id)
        /\ (language = NoLanguage \/ r.language = language)
        /\ SimGE(CosineSimilarity(q, JsonLoads(r.code_embedding)), ThresholdValue(threshold))}

\* the sequences of n distinct elements of S
Arrangements(S, n) ==
    {s \in [1 .. n -> S] : \A i, j \in 1 .. n : i # j => s[i] # s[j]}

\* C23: a search with a positive limit that ran on the table, on either
\* path, returns min(limit, number of qualifying rows) distinct qualifying
\* rows (so none of another project or language when that filter is given,
\* and never more than limit), and no qualifying row left out has a higher
\* similarity than a returned one.
C23_TopQualifyingRows ==
    (ret.op = "search" /\ ret.arg.limit > 0 /\ ret.arg.path \in {"accelerated", "fallback"}) =>
        LET q == ret.arg.query_embedding.v
            good == Qualifying(store, q, ret.arg.project_id, ret.arg.language, ret.arg.threshold)
        IN /\ Len(ret.out) <= ret.arg.limit
           /\ Len(ret.out) = Min(ret.arg.limit, Cardinality(good))
           /\ \E rows \in Arrangements(good, Len(ret.out)) :
                 /\ \A i \in DOMAIN ret.out : ret.out[i] = ResultDict(Candidate(rows[i], q))
                 /\ \A r \in good \ {rows[i] : i \in DOMAIN rows} :
                       \A i \in DOMAIN rows :
                           SimGE(Candidate(rows[i], q).similarity, Candidate(r, q).similarity)

\* a search with both filters and limit 1 over two qualifying rows, the row
\* of the highest similarity in the table being of another project
C23_Witness ==
    /\ ret.op = "search" /\ ret.arg.path = "accelerated"
    /\ ret.arg.limit = 1
    /\ ret.arg.project_id = ProjP /\ ret.arg.language = "python"
    /\ Len(ret.out) = 1
    /\ Cardinality(Qualifying(store, ret.arg.query_embedding.v, ProjP, "python", ret.arg.threshold)) = 2
    /\ \E r \in store :
          /\ r.project_id # ProjP
          /\ ~SimGE(ret.out[1].similarity, Candidate(r, ret.arg.query_embedding.v).similarity)

\* C29: index calls with different (project_id, file_path) pairs never
\* write the same record: a successful index call replaces no row of another
\* project or of another file.
C29_DistinctKeysDistinctRecords ==
    (ret.op = "index" /\ ret.ok) =>
        \A old \in ret.out.replaced :
            old.project_id = ret.arg.project_id /\ old.file_path = ret.arg.file_path

\* C30: delete_project_embeddings(p) leaves every row of another project
\* and the embedding cache as they were; when it fails it returns False and
\* no row changes.
C30_DeleteFrame ==
    [][(ret = NoCall /\ ret'.op = "delete") =>
          /\ \A r \in store : r.project_id # ret'.arg => r \in store'
          /\ \A r \in store' : r \in store
          /\ embedding_cache' = embedding_cache
          /\ ~ret'.ok => store' = store]_vars

\* a delete that removed the rows of its project while the table held a
\* row of the other project and the cache held the vectors of both
C30_Witness ==
    /\ ret.op = "delete" /\ ret.ok
    /\ ret.out # {}
    /\ \E r \in store : r.project_id # ret.arg
    /\ Cardinality(DOMAIN embedding_cache) >= 2
    /\ \A r \in store : r.project_id # ret.arg

----------------------------------------------------------------------------
(* SpecProbe: the probes of the vec0 extension. _init_database tries       *)
(* load_extension once, and search_similar_code tries it again in every    *)
(* call that has a query vector; calls lists the probes made and, for a    *)
(* search, the path it ended on.                                           *)

ProbeOutcomes == {"loaded", "missing"}

\* the requests indexed and the one search made under SpecProbe
ProbeRequests == {req \in IndexRequests : req.project_id = ProjP /\ req.content = Code1}

\* the paths open to a search after its own probe: the vec0 query only when
\* load_extension went through
PathsAfterProbe(probe) ==
    IF probe = "loaded" THEN SearchPaths ELSE SearchPaths \ {"accelerated"}

\* the log entry of a search: no probe is made without a query vector
ProbeEntry(e, probe, path) ==
    [op |-> "search", probe |-> IF Truthy(e.result) THEN probe ELSE "none",
     path |-> PathTaken(e, path)]

InitProbe ==
    /\ store = {}
    /\ embedding_cache = [h \in {} |-> <<>>]
    /\ ret = NoCall
    /\ batch = NoBatch
    /\ \E probe \in ProbeOutcomes : calls = <<[op |-> "init", probe |-> probe, path |-> "none"]>>
    /\ chunker = NoChunker
    /\ requests = NoRequests

ProbeIndex == \E req \in ProbeRequests :
    \E outcome \in OutcomesFor(embedding_cache, SnippetText(req)) :
      IndexCodeSnippet(req, outcome, TRUE, 0)

ProbeSearch == \E query \in QueryTexts, probe \in ProbeOutcomes :
    \E outcome \in OutcomesFor(embedding_cache, query) :
    \E path \in (IF outcome = "ok" THEN PathsAfterProbe(probe) ELSE {"failed"}) :
      /\ Len(calls) <= MaxSearches
      /\ SearchStep(query, NoProject, NoLanguage, MaxLimit, [num |-> 0, den |-> 1], outcome, path)
      /\ calls' = Append(calls, ProbeEntry(EmbedSingle(embedding_cache, query, outcome), probe, path))
      /\ UNCHANGED <<store, batch, chunker, requests>>

NextProbe == ProbeIndex \/ ProbeSearch \/ Return

SpecProbe == InitProbe /\ [][NextProbe]_vars

\* the strategy a probe selects
Selected(entry) ==
    IF entry.op = "init"
      THEN (IF entry.probe = "loaded" THEN "accelerated" ELSE "fallback")
      ELSE entry.path

\* C13: the extension is probed at initialization only, no search probes it
\* again, and once the fallback has been selected (by the probe at
\* initialization or in an earlier search) no later search takes the
\* accelerated path.
C13_StrategyFixedAtInit ==
    /\ \A j \in DOMAIN calls : calls[j].op = "search" => calls[j].probe = "none"
    /\ \A i, j \in DOMAIN calls :
          (i < j /\ Selected(calls[i]) = "fallback") => calls[j].path # "accelerated"

\* C13, the second half alone: after the fallback was selected no search
\* takes the accelerated path.
C13_FallbackIsPermanent ==
    \A i, j \in DOMAIN calls :
        (i < j /\ Selected(calls[i]) = "fallback") => calls[j].path # "accelerated"

----------------------------------------------------------------------------
(* SpecBatch: one batch_index_files call. A file entry is a dict; the      *)
(* loop reads its keys with file_data[..] and file_data.get('metadata').   *)

\* the keys read with file_data[..], in the order the call evaluates them
EntryKeys == <<"file_path", "content", "language", "project_id">>

\* a dict without one of its keys
Without(d, key) == [k \in DOMAIN d \ {key} |-> d[k]]

\* the dict holding the arguments of an index request
EntryOf(req) ==
    [file_path |-> req.file_path, content |-> req.content, language |-> req.language,
     project_id |-> req.project_id, metadata |-> req.metadata]

\* the entries handed to batch_index_files: two complete ones (one without
\* the optional 'metadata'), one without 'content', one without 'file_path'
FileEntries ==
    LET e1 == EntryOf(CHOOSE req \in IndexRequests : req.project_id = ProjP /\ req.metadata = FullMeta)
        e2 == EntryOf(CHOOSE req \in IndexRequests : req.project_id = ProjP /\ req.file_path = PathAA)
    IN {e1, Without(e2, "metadata"), Without(e1, "content"), Without(e2, "file_path")}

FileLists == UNION {[1 .. n -> FileEntries] : n \in 0 .. MaxFiles}

\* the first key of EntryKeys the entry lacks, None when it has them all:
\* file_data[key] raises KeyError(key)
RECURSIVE FirstMissing(_, _)
FirstMissing(entry, keys) ==
    IF keys = <<>> THEN None
    ELSE IF Head(keys) \notin DOMAIN entry THEN Head(keys)
    ELSE FirstMissing(entry, Tail(keys))

\* the arguments index_code_snippet is called with for a complete entry
RequestOf(entry) ==
    [project_id |-> entry.project_id, file_path |-> entry.file_path,
     content |-> entry.content, language |-> entry.language,
     metadata |-> DictGet(entry, "metadata", NoMeta)]

\* whether the except branch raises in turn: its message reads
\* file_data['file_path'] again
HandlerRaises(entry) == "file_path" \notin DOMAIN entry

InitBatch ==
    /\ store = {}
    /\ embedding_cache = [h \in {} |-> <<>>]
    /\ ret = NoCall
    /\ batch = NoBatch
    /\ calls = <<>>
    /\ chunker = NoChunker
    /\ requests = NoRequests

\* batch_index_files(files) up to the loop
BatchIndexFiles(files) ==
    /\ batch.pc = "idle"
    /\ batch' = [pc |-> "loop", files |-> files, i |-> 0,
                 successful |-> 0, failed |-> 0, errors |-> <<>>]
    /\ UNCHANGED <<store, embedding_cache, ret, calls, chunker, requests>>

\* one pass of "for file_data in files"
IndexEntry(outcome, storage_ok, now) ==
    /\ batch.pc = "loop"
    /\ batch.i < Len(batch.files)
    /\ LET entry == batch.files[batch.i + 1]
           missing == FirstMissing(entry, EntryKeys)
       IN IF missing # None
            THEN /\ batch' = IF HandlerRaises(entry)
                               THEN [batch EXCEPT !.pc = "raised"]
                               ELSE [batch EXCEPT !.i = @ + 1, !.failed = @ + 1,
                                                  !.errors = Append(@, <<"Error indexing", entry.file_path, missing>>)]
                 /\ UNCHANGED <<store, embedding_cache>>
            ELSE LET r == IndexOutcome(store, embedding_cache, RequestOf(entry), outcome, storage_ok, now)
                 IN /\ store' = r.table
                    /\ embedding_cache' = r.cache
                    /\ batch' = IF r.ok
                                  THEN [batch EXCEPT !.i = @ + 1, !.successful = @ + 1]
                                  ELSE [batch EXCEPT !.i = @ + 1, !.failed = @ + 1,
                                                     !.errors = Append(@, <<"Failed to index", entry.file_path>>)]
    /\ UNCHANGED <<ret, calls, chunker, requests>>

\* "return results" after the last entry
BatchIndexReturn ==
    /\ batch.pc = "loop"
    /\ batch.i = Len(batch.files)
    /\ batch' = [batch EXCEPT !.pc = "returned"]
    /\ UNCHANGED <<store, embedding_cache, ret, calls, chunker, requests>>

BatchIndex == \E files \in FileLists : BatchIndexFiles(files)

NextEntry == \E outcome \in ProviderOutcomes, storage_ok \in BOOLEAN, now \in Times :
    IndexEntry(outcome, storage_ok, now)

NextBatch == BatchIndex \/ NextEntry \/ BatchIndexReturn

SpecBatch == InitBatch /\ [][NextBatch]_vars

\* C14: batch_index_files raises for no list of entries; it returns counts
\* with successful + failed = the number of entries and one error reason per
\* failed entry, so every entry after a failed one was processed too.
C14_BatchNeverRaises ==
    /\ batch.pc # "raised"
    /\ batch.pc = "returned" =>
          /\ batch.successful + batch.failed = Len(batch.files)
          /\ Len(batch.errors) = batch.failed

\* C14 for lists whose entries all have the key 'file_path': the part of
\* the claim the code keeps.
C14_BatchOfNamedFiles ==
    (batch.pc # "idle" /\ \A k \in DOMAIN batch.files : "file_path" \in DOMAIN batch.files[k]) =>
        /\ batch.pc # "raised"
        /\ batch.pc = "returned" =>
              /\ batch.successful + batch.failed = Len(batch.files)
              /\ Len(batch.errors) = batch.failed

\* a failed entry followed by one that was indexed
C14_FailureThenSuccess ==
    /\ batch.pc = "returned"
    /\ Len(batch.files) = 2
    /\ batch.failed = 1 /\ batch.successful = 1
    /\ batch.errors[1][1] = "Error indexing"
    /\ Cardinality(store) = 1

----------------------------------------------------------------------------
(* SpecIndex: index_code_snippet calls running side by side on one         *)
(* service, against a provider whose answer to a text is not fixed. A call *)
(* is suspended only while it waits for the provider: a cache hit runs it  *)
(* from start to return in one step, and so does the provider's answer     *)
(* (cache write, INSERT OR REPLACE, commit).                               *)

\* the dimension of code_embedding FLOAT[384]; the vectors of the model
\* are pairs
Dimension == 2

\* the index calls started
IndexTasks == {1, 2}

\* what the provider can answer: a failure, or a 200 response carrying an
\* empty list, one of two vectors of Dimension components, a longer vector
Replies ==
    {NoVector, Some(<<>>), Some(<<1, 0>>), Some(<<0, 1>>), Some(<<1, 0, 0>>)}

\* a call not started yet; order is the rank of its commit among the
\* commits made, 0 when it did not commit
NewTask == [state |-> "new", ok |-> FALSE, order |-> 0]

\* the number of calls that have committed
Commits(cs) == Cardinality({k \in DOMAIN cs : cs[k].order > 0})

\* index_code_snippet from the embedding on: [table, task]
FinishIndex(table, cs, req, embedding, storage_ok, now) ==
    LET row == IndexRow(req, embedding.v, now)
        written == Truthy(embedding) /\ storage_ok
    IN [table |-> WriteRow(table, row, written),
        task  |-> [state |-> "done", req |-> req, ok |-> written, row |-> row,
                   order |-> IF written THEN Commits(cs) + 1 ELSE 0]]

InitIndex ==
    /\ store = {}
    /\ embedding_cache = [h \in {} |-> <<>>]
    /\ ret = NoCall
    /\ batch = NoBatch
    /\ calls = [k \in IndexTasks |-> NewTask]
    /\ chunker = NoChunker
    /\ requests = NoRequests

\* call k starts: on a cache hit it runs to its return, on a miss it posts
\* the request and waits
StartIndex(k, req, storage_ok, now) ==
    /\ calls[k].state = "new"
    /\ IF TextHash(SnippetText(req)) \in DOMAIN embedding_cache
         THEN LET f == FinishIndex(store, calls, req,
                                  Some(embedding_cache[TextHash(SnippetText(req))]),
                                  storage_ok, now)
              IN /\ store' = f.table
                 /\ calls' = [calls EXCEPT ![k] = f.task]
         ELSE /\ calls' = [calls EXCEPT ![k] = [state |-> "inflight", req |-> req,
                                                ok |-> FALSE, order |-> 0]]
              /\ UNCHANGED store
    /\ UNCHANGED <<embedding_cache, ret, batch, chunker, requests>>

\* the provider answers call k, which runs on to its return
ProviderReplies(k, answer, storage_ok, now) ==
    /\ calls[k].state = "inflight"
    /\ LET e == StoreAnswer(embedding_cache, SnippetText(calls[k].req), answer)
           f == FinishIndex(store, calls, calls[k].req, e.result, storage_ok, now)
       IN /\ embedding_cache' = e.cache
          /\ store' = f.table
          /\ calls' = [calls EXCEPT ![k] = f.task]
    /\ UNCHANGED <<ret, batch, chunker, requests>>

IndexStarts == \E k \in IndexTasks, req \in IndexRequests, storage_ok \in BOOLEAN, now \in Times :
    StartIndex(k, req, storage_ok, now)

IndexAnswered == \E k \in IndexTasks, answer \in Replies, storage_ok \in BOOLEAN, now \in Times :
    ProviderReplies(k, answer, storage_ok, now)

NextIndex == IndexStarts \/ IndexAnswered

SpecIndex == InitIndex /\ [][NextIndex]_vars

\* C12: an index call whose vector has not Dimension components is
\* rejected and writes nothing, so every stored vector has exactly Dimension
\* components.
C12_StoredVectorsHaveDimension ==
    /\ \A r \in store : Len(JsonLoads(r.code_embedding)) = Dimension
    /\ \A k \in IndexTasks :
          (calls[k].state = "done" /\ Len(JsonLoads(calls[k].row.code_embedding)) # Dimension) =>
              ~calls[k].ok

\* C18: of two index calls that both succeeded, on the same key the table
\* holds one row of the key, the row of the call that committed last, and on
\* different keys it holds the row of each.
C18_LastWriteWins ==
    \A j, k \in IndexTasks :
        (/\ j # k
         /\ calls[j].state = "done" /\ calls[j].ok
         /\ calls[k].state = "done" /\ calls[k].ok
         /\ calls[j].order < calls[k].order) =>
            IF Key(calls[j].req) = Key(calls[k].req)
              THEN {r \in store : Key(r) = Key(calls[k].req)} = {calls[k].row}
              ELSE calls[j].row \in store /\ calls[k].row \in store

\* C18 with the stored key file_id in place of (project_id, file_path): what
\* the code keeps.
C18_LastWriteWinsByFileId ==
    \A j, k \in IndexTasks :
        (/\ j # k
         /\ calls[j].state = "done" /\ calls[j].ok
         /\ calls[k].state = "done" /\ calls[k].ok
         /\ calls[j].order < calls[k].order) =>
            IF calls[j].row.file_id = calls[k].row.file_id
              THEN {r \in store : r.file_id = calls[k].row.file_id} = {calls[k].row}
              ELSE calls[j].row \in store /\ calls[k].row \in store

\* C20: an entry of the embedding cache is never removed and never gets
\* another vector.
C20_CacheAppendOnly ==
    [][\A h \in DOMAIN embedding_cache :
          /\ h \in DOMAIN embedding_cache'
          /\ embedding_cache'[h] = embedding_cache[h]]_vars

----------------------------------------------------------------------------
(* SpecGate: the LEO gatekeeper (src/src/services/leo_service.py) and the  *)
(* endpoint POST /api/code/index (src/src/main.py), which asks it before   *)
(* it calls index_code_snippet.                                            *)

\* what json.loads(leo_response) can give: a JSON object (a dict), or a
\* JSON value of another type
JObject(fields) == [type |-> "object", fields |-> fields]
JString(str) == [type |-> "string", fields |-> [k \in {} |-> None], value |-> str]

\* the decision payloads LEO answers with: the three decisions of its
\* prompt, a deny without 'reasoning', a decision outside the prompt, an
\* object without the key 'decision', and a bare JSON string
DecisionPayloads ==
    { JObject([decision |-> "approve", reasoning |-> "fine"]),
      JObject([decision |-> "deny", reasoning |-> "risky"]),
      JObject([decision |-> "deny"]),
      JObject([decision |-> "escalate"]),
      JObject([decision |-> "maybe"]),
      JObject([confidence |-> "high"]),
      JString("approve") }

\* the ways the request to /v1/chat/completions fails: a status other than
\* 200, asyncio.TimeoutError, json.JSONDecodeError on the content, any other
\* exception
LeoFailures == {"status", "timeout", "invalid json", "exception"}

\* what one request to LEO ends in
LeoReplies ==
    {[kind |-> "ok", data |-> d] : d \in DecisionPayloads}
      \cup {[kind |-> k, data |-> None] : k \in LeoFailures}

\* make_decision(operation_context); evaluate_code_operation returns the
\* same value
MakeDecision(reply) ==
    IF reply.kind = "ok"
      THEN [success |-> TRUE, decision |-> reply.data]
      ELSE [success |-> FALSE, error |-> reply.kind]

\* decision.get(..) raises AttributeError when decision is not a dict
GetRaises(decision) == decision.type # "object"

\* decision.get("decision")
DecisionOf(decision) == DictGet(decision.fields, "decision", None)

\* process_operation_request(operation_type, details, leo_service), from
\* the value make_decision returned: the dict returned, or the exception
ProcessOperationRequest(leo_result) ==
    IF ~leo_result.success
      THEN [raised |-> FALSE, action |-> "escalate", reason |-> "LEO service unavailable"]
    ELSE IF GetRaises(leo_result.decision)
      THEN [raised |-> TRUE, action |-> None, reason |-> "AttributeError"]
    ELSE IF DecisionOf(leo_result.decision) = "approve"
      THEN [raised |-> FALSE, action |-> "approved", reason |-> None]
    ELSE IF DecisionOf(leo_result.decision) = "escalate"
      THEN [raised |-> FALSE, action |-> "escalate", reason |-> None]
    ELSE IF DecisionOf(leo_result.decision) = "deny"
      THEN [raised |-> FALSE, action |-> "denied",
            reason |-> DictGet(leo_result.decision.fields, "reasoning", "Operation denied by LEO")]
    ELSE [raised |-> FALSE, action |-> "escalate", reason |-> "Unexpected LEO response format"]

\* firebase_service.get_project(project_id, uid) as the endpoint sees it:
\* None (no such project, or none the user may see), or the project's dict
NoProjectDoc == [none |-> TRUE]
ProjectDocs == {NoProjectDoc, [none |-> FALSE, id |-> "doc", name |-> "n"]}

\* LEO is asked only once the project was found
NotAsked == [success |-> FALSE, error |-> "not asked"]
LeoAsked(project, reply) == IF project = NoProjectDoc THEN NotAsked ELSE MakeDecision(reply)

\* index_code_file (the endpoint) up to the call of index_code_snippet: the
\* status it answers with, or "index" when it goes on to that call
Gatekeeping(project, leo_decision) ==
    IF project = NoProjectDoc THEN "404"
    ELSE IF ~leo_decision.success THEN "500"
    ELSE IF GetRaises(leo_decision.decision) THEN "500 AttributeError"
    ELSE IF DecisionOf(leo_decision.decision) = "deny" THEN "403"
    ELSE IF DecisionOf(leo_decision.decision) = "escalate" THEN "202"
    ELSE "index"

\* the requests sent to the endpoint
GateRequests == {req \in IndexRequests : req.file_path = PathA /\ req.content = Code1}

InitGate ==
    /\ store = {}
    /\ embedding_cache = [h \in {} |-> <<>>]
    /\ ret = NoCall
    /\ batch = NoBatch
    /\ calls = <<>>
    /\ chunker = NoChunker
    /\ requests = NoRequests

\* POST /api/code/index
IndexCodeFile(request, project, reply, outcome, storage_ok, now) ==
    LET leo_decision == LeoAsked(project, reply)
        gate == Gatekeeping(project, leo_decision)
        r == IndexOutcome(store, embedding_cache, request, outcome, storage_ok, now)
    IN /\ ret = NoCall
       /\ IF gate = "index"
            THEN /\ store' = r.table
                 /\ embedding_cache' = r.cache
                 /\ ret' = [op |-> "index_code_file",
                            arg |-> [request |-> request, project |-> project,
                                     leo_decision |-> leo_decision, reached |-> TRUE],
                            ok |-> r.ok,
                            out |-> IF r.ok THEN "200" ELSE "500"]
            ELSE /\ ret' = [op |-> "index_code_file",
                            arg |-> [request |-> request, project |-> project,
                                     leo_decision |-> leo_decision, reached |-> FALSE],
                            ok |-> FALSE,
                            out |-> gate]
                 /\ UNCHANGED <<store, embedding_cache>>
       /\ UNCHANGED <<batch, calls, chunker, requests>>

\* one call of process_operation_request
ProcessOperation(reply) ==
    LET leo_result == MakeDecision(reply)
        result == ProcessOperationRequest(leo_result)
    IN /\ ret = NoCall
       /\ ret' = [op |-> "process_operation_request", arg |-> [leo_result |-> leo_result],
                  ok |-> ~result.raised, out |-> result.action]
       /\ UNCHANGED <<store, embedding_cache, batch, calls, chunker, requests>>

GateIndex ==
    \E request \in GateRequests, project \in ProjectDocs :
    \E reply \in (IF project = NoProjectDoc THEN {[kind |-> "status", data |-> None]} ELSE LeoReplies) :
    \E outcome \in OutcomesFor(embedding_cache, SnippetText(request)), storage_ok \in BOOLEAN,
       now \in Times :
      IndexCodeFile(request, project, reply, outcome, storage_ok, now)

GateProcess == \E reply \in LeoReplies : ProcessOperation(reply)

NextGate == GateIndex \/ GateProcess \/ Return

SpecGate == InitGate /\ [][NextGate]_vars

\* LEO's call succeeded and its payload is an object whose 'decision' is d
Decided(leo, d) ==
    /\ leo.success
    /\ leo.decision.type = "object"
    /\ "decision" \in DOMAIN leo.decision.fields
    /\ leo.decision.fields.decision = d

\* C25: the index endpoint writes a row (index_code_snippet was reached and
\* returned True) only after the project was found for the user and LEO's
\* call succeeded with the decision 'approve'; no failed call, 'deny',
\* 'escalate' or other decision value leads to a write.
C25_WritesOnlyWhenApproved ==
    (ret.op = "index_code_file" /\ ret.arg.reached /\ ret.ok) =>
        /\ ret.arg.project # NoProjectDoc
        /\ Decided(ret.arg.leo_decision, "approve")

\* C25 for the refusals the endpoint does test: without the project, after
\* a failed LEO call, a payload that is no object, a 'deny' or an 'escalate'
\* index_code_snippet is not reached and no row changes.
C25_RefusalsNeverWrite ==
    [][(/\ ret = NoCall /\ ret'.op = "index_code_file"
        /\ \/ ret'.arg.project = NoProjectDoc
           \/ ~ret'.arg.leo_decision.success
           \/ ret'.arg.leo_decision.decision.type # "object"
           \/ Decided(ret'.arg.leo_decision, "deny")
           \/ Decided(ret'.arg.leo_decision, "escalate")) =>
          (~ret'.arg.reached /\ store' = store)]_vars

\* C26: process_operation_request raises nothing; it returns 'approved'
\* only for a successful call deciding 'approve', 'denied' only for one
\* deciding 'deny', and 'escalate' for a failed call and every other payload.
C26_ActionFollowsDecision ==
    ret.op = "process_operation_request" =>
        /\ ret.ok
        /\ ret.out = "approved" => Decided(ret.arg.leo_result, "approve")
        /\ ret.out = "denied" => Decided(ret.arg.leo_result, "deny")
        /\ (~Decided(ret.arg.leo_result, "approve") /\ ~Decided(ret.arg.leo_result, "deny")) =>
              ret.out = "escalate"

\* C26 for the payloads that are JSON objects, and for failed calls: the
\* part of the claim the code keeps.
C26_ActionForObjectPayload ==
    (/\ ret.op = "process_operation_request"
     /\ (ret.arg.leo_result.success => ret.arg.leo_result.decision.type = "object")) =>
        /\ ret.ok
        /\ ret.out = "approved" <=> Decided(ret.arg.leo_result, "approve")
        /\ ret.out = "denied" <=> Decided(ret.arg.leo_result, "deny")
        /\ (~Decided(ret.arg.leo_result, "approve") /\ ~Decided(ret.arg.leo_result, "deny")) =>
              ret.out = "escalate"

----------------------------------------------------------------------------
(* SpecRate: one RateLimiter (src/src/middleware/auth_middleware.py).      *)
(* requests is its dict of accepted timestamps; calls logs every           *)
(* check_rate_limit call made, with the time it read and what it returned. *)

\* self.limits: 'struggle' allows fewer requests than 'search' (50 against
\* 100), 'index' more (1000); every window is the same
limits ==
    [ search   |-> [count |-> ScaledCount,     window |-> ScaledWindow],
      index    |-> [count |-> ScaledCount + 1, window |-> ScaledWindow],
      struggle |-> [count |-> ScaledCount - 1, window |-> ScaledWindow] ]

\* self.limits.get(action, self.limits.get('default', {'window': 3600}))['window']:
\* limits has no key 'default'
WindowOf(action) == IF action \in DOMAIN limits THEN limits[action].window ELSE ScaledWindow

\* self.limits.get(action, self.limits.get('default', {'count': 100}))['count']
CountOf(action) == IF action \in DOMAIN limits THEN limits[action].count ELSE ScaledCount

UserIds == {"u1", "u2"}

\* the (endpoint, action) pairs check_rate_limit is called with: a
\* dependency made by create_rate_limit_dependency binds one action to its
\* endpoint ('default' when none is given)
RateDependencies ==
    { [endpoint |-> "struggle", action |-> "struggle"],
      [endpoint |-> "projects", action |-> "default"] }

ClockTimes == 0 .. MaxClock

\* self.requests[user_id][endpoint], [] for a user or endpoint not seen yet
Recorded(reqs, user_id, endpoint) ==
    IF user_id \in DOMAIN reqs /\ endpoint \in DOMAIN reqs[user_id]
      THEN reqs[user_id][endpoint]
      ELSE <<>>

\* [timestamp for timestamp in .. if timestamp > cutoff_time]
RECURSIVE NewerThan(_, _)
NewerThan(timestamps, cutoff_time) ==
    IF timestamps = <<>> THEN <<>>
    ELSE IF Head(timestamps) > cutoff_time
      THEN <<Head(timestamps)>> \o NewerThan(Tail(timestamps), cutoff_time)
    ELSE NewerThan(Tail(timestamps), cutoff_time)

\* self.requests[user_id][endpoint] = timestamps
SetRecorded(reqs, user_id, endpoint, timestamps) ==
    [u \in DOMAIN reqs \cup {user_id} |->
        IF u = user_id
          THEN [e \in (IF u \in DOMAIN reqs THEN DOMAIN reqs[u] ELSE {}) \cup {endpoint} |->
                  IF e = endpoint THEN timestamps ELSE reqs[u][e]]
          ELSE reqs[u]]

\* check_rate_limit(user_id, endpoint, action) at time current_time:
\* [requests, allowed]
CheckRateLimitRecordAll(reqs, user_id, endpoint, action, current_time) ==
    LET kept == NewerThan(Recorded(reqs, user_id, endpoint), current_time - WindowOf(action))
    IN [requests |-> SetRecorded(reqs, user_id, endpoint, Append(kept, current_time)),
        allowed  |-> Len(kept) < CountOf(action)]
CheckRateLimit(reqs, user_id, endpoint, action, current_time) ==
    LET kept == NewerThan(Recorded(reqs, user_id, endpoint), current_time - WindowOf(action))
    IN IF Len(kept) >= CountOf(action)
         THEN [requests |-> SetRecorded(reqs, user_id, endpoint, kept), allowed |-> FALSE]
         ELSE [requests |-> SetRecorded(reqs, user_id, endpoint, Append(kept, current_time)),
               allowed  |-> TRUE]

\* the time the last call read; time.time() does not go back
LastTime == IF calls = <<>> THEN 0 ELSE calls[Len(calls)].current_time

InitRate ==
    /\ store = {}
    /\ embedding_cache = [h \in {} |-> <<>>]
    /\ ret = NoCall
    /\ batch = NoBatch
    /\ calls = <<>>
    /\ chunker = NoChunker
    /\ requests = NoRequests

\* one call of the dependency's check_limit(user)
CheckLimit(user_id, dep, current_time) ==
    LET r == CheckRateLimit(requests, user_id, dep.endpoint, dep.action, current_time)
    IN /\ Len(calls) < MaxChecks
       /\ current_time >= LastTime
       /\ requests' = r.requests
       /\ calls' = Append(calls, [user_id |-> user_id, endpoint |-> dep.endpoint,
                                  action |-> dep.action, current_time |-> current_time,
                                  allowed |-> r.allowed])
       /\ UNCHANGED <<store, embedding_cache, ret, batch, chunker>>

NextRate == \E user_id \in UserIds, dep \in RateDependencies, current_time \in ClockTimes :
    CheckLimit(user_id, dep, current_time)

SpecRate == InitRate /\ [][NextRate]_vars

\* the number of timestamps of a list inside the window that ends at time t
InWindow(timestamps, t, window) ==
    Cardinality({i \in DOMAIN timestamps : t - window < timestamps[i] /\ timestamps[i] <= t})

\* the calls of the log accepted for a user and endpoint inside that window
AcceptedInWindow(log, user_id, endpoint, t, window) ==
    Cardinality({i \in DOMAIN log :
                    /\ log[i].user_id = user_id /\ log[i].endpoint = endpoint
                    /\ log[i].allowed
                    /\ t - window < log[i].current_time /\ log[i].current_time <= t})

\* C27: for every user and endpoint, the requests accepted inside any one
\* window, and the timestamps recorded inside it, never number more than
\* the configured count; a request is accepted exactly when fewer than count
\* recorded timestamps lie inside the window that ends with it; and a
\* rejected request is not recorded.
C27_RateLimitHolds ==
    /\ \A user_id \in UserIds, dep \in RateDependencies, t \in 0 .. (MaxClock + ScaledWindow) :
          /\ AcceptedInWindow(calls, user_id, dep.endpoint, t, WindowOf(dep.action)) <= CountOf(dep.action)
          /\ InWindow(Recorded(requests, user_id, dep.endpoint), t, WindowOf(dep.action)) <= CountOf(dep.action)
    /\ \A n \in DOMAIN calls :
          LET c == calls[n]
              before == SubSeq(calls, 1, n - 1)
          IN c.allowed <=>
                AcceptedInWindow(before, c.user_id, c.endpoint, c.current_time, WindowOf(c.action))
                  < CountOf(c.action)
    /\ \A user_id \in UserIds, dep \in RateDependencies :
          LET recorded == Recorded(requests, user_id, dep.endpoint)
          IN \A t \in ClockTimes :
                Cardinality({i \in DOMAIN recorded : recorded[i] = t})
                  <= Cardinality({n \in DOMAIN calls :
                                     /\ calls[n].user_id = user_id /\ calls[n].endpoint = dep.endpoint
                                     /\ calls[n].current_time = t /\ calls[n].allowed})

\* a user's call rejected at the limit, the same user's later call accepted
\* once the window has moved on, and another user untouched by both
C27_Witness ==
    \E i, j \in DOMAIN calls :
        /\ i < j
        /\ calls[i].user_id = calls[j].user_id /\ calls[i].endpoint = calls[j].endpoint
        /\ calls[i].endpoint = "struggle"
        /\ ~calls[i].allowed /\ calls[j].allowed
        /\ \E u \in DOMAIN requests : u # calls[i].user_id /\ Len(Recorded(requests, u, "struggle")) = 1

----------------------------------------------------------------------------
(* SpecAccess: AuthMiddleware.check_project_access                         *)
(* (src/src/middleware/auth_middleware.py) on the project documents        *)
(* FirebaseService.get_project reads.                                      *)

\* ProjectRole, and the levels check_project_access gives its values
ProjectRoles == {"viewer", "collaborator", "admin", "owner"}
role_hierarchy == [viewer |-> 1, collaborator |-> 2, admin |-> 3, owner |-> 4]

\* role_hierarchy.get(role, default)
RoleLevel(role, default) == IF role \in DOMAIN role_hierarchy THEN role_hierarchy[role] ELSE default

\* the 'collaborators' dicts: uid -> role, for any set of the users
CollaboratorDicts == UNION {[uids -> ProjectRoles] : uids \in SUBSET UserIds}

\* the documents of the collection 'projects': none under the id, or a
\* dict with an owner (one of the users, or somebody else) and, unless the
\* key is missing, its collaborators
StoredProjects ==
    {NoProjectDoc}
      \cup {[none |-> FALSE, id |-> "doc", owner_uid |-> o, collaborators |-> c] :
               o \in UserIds \cup {"u0"}, c \in CollaboratorDicts}
      \cup {[none |-> FALSE, id |-> "doc", owner_uid |-> o] : o \in UserIds \cup {"u0"}}

\* project.get('collaborators', {})
CollaboratorsOf(project) == DictGet(project, "collaborators", [uid \in {} |-> None])

\* get_project(project_id, user_uid): None when the read raises, when there
\* is no document, and when the user is neither a collaborator nor the owner
GetProject(doc, read_ok, user_uid) ==
    IF ~read_ok THEN NoProjectDoc
    ELSE IF doc.none THEN NoProjectDoc
    ELSE IF user_uid \notin DOMAIN CollaboratorsOf(doc) /\ doc.owner_uid # user_uid THEN NoProjectDoc
    ELSE doc

\* check_project_access(project_id, user, required_role)
CheckProjectAccessAnyRole(doc, read_ok, uid, required_role) ==
    LET project == GetProject(doc, read_ok, uid)
    IN IF project.none THEN FALSE ELSE TRUE
CheckProjectAccess(doc, read_ok, uid, required_role) ==
    LET project == GetProject(doc, read_ok, uid)
    IN IF project.none THEN FALSE
       ELSE IF project.owner_uid = uid THEN TRUE
       ELSE LET user_role == DictGet(CollaboratorsOf(project), uid, None)
            IN IF user_role = None THEN FALSE
               ELSE RoleLevel(user_role, 1) >= RoleLevel(required_role, 2)

InitAccess ==
    /\ store = {}
    /\ embedding_cache = [h \in {} |-> <<>>]
    /\ ret = NoCall
    /\ batch = NoBatch
    /\ calls = <<>>
    /\ chunker = NoChunker
    /\ requests = NoRequests

CheckAccessCall(doc, read_ok, uid, required_role) ==
    /\ ret = NoCall
    /\ ret' = [op |-> "check_project_access",
               arg |-> [doc |-> doc, read_ok |-> read_ok, uid |-> uid, required_role |-> required_role],
               ok |-> TRUE,
               out |-> CheckProjectAccess(doc, read_ok, uid, required_role)]
    /\ UNCHANGED <<store, embedding_cache, batch, calls, chunker, requests>>

CheckAccess == \E doc \in StoredProjects, read_ok \in BOOLEAN, uid \in UserIds,
                  required_role \in ProjectRoles :
    CheckAccessCall(doc, read_ok, uid, required_role)

NextAccess == CheckAccess \/ Return

SpecAccess == InitAccess /\ [][NextAccess]_vars

\* the order of the roles, lowest first
RoleOrder == <<"viewer", "collaborator", "admin", "owner">>
Rank(role) == CHOOSE i \in DOMAIN RoleOrder : RoleOrder[i] = role

\* the role a user holds in a project document, None when there is none
RoleIn(doc, uid) ==
    IF "collaborators" \in DOMAIN doc /\ uid \in DOMAIN doc.collaborators
      THEN doc.collaborators[uid]
      ELSE None

\* C28: check_project_access returns True exactly when the project was
\* read and the user is its owner or holds in it a role that ranks, in
\* viewer < collaborator < admin < owner, at least as high as the required
\* role; without a role, without the project and after a failed read it
\* returns False.
C28_AccessFollowsRole ==
    ret.op = "check_project_access" =>
        LET a == ret.arg
        IN /\ ret.ok
           /\ ret.out <=>
                 /\ a.read_ok
                 /\ ~a.doc.none
                 /\ \/ a.doc.owner_uid = a.uid
                    \/ /\ RoleIn(a.doc, a.uid) # None
                       /\ Rank(RoleIn(a.doc, a.uid)) >= Rank(a.required_role)
           /\ (~a.read_ok \/ a.doc.none) => ~ret.out

\* an admin who is not the owner passes a check for 'collaborator', in a
\* project where the other user holds a role too
C28_Witness ==
    /\ ret.op = "check_project_access" /\ ret.out
    /\ ~ret.arg.doc.none /\ ret.arg.doc.owner_uid # ret.arg.uid
    /\ RoleIn(ret.arg.doc, ret.arg.uid) = "admin"
    /\ ret.arg.required_role = "collaborator"
    /\ \E u \in UserIds : u # ret.arg.uid /\ RoleIn(ret.arg.doc, u) = "viewer"

----------------------------------------------------------------------------
(* embed_batch: one call on a fresh NomicEmbeddingService.                 *)

\* the texts handed to embed_batch
EmbedTexts == {SnippetText(req) : req \in {r \in IndexRequests : r.project_id = ProjP /\ r.file_path = PathA}}

TextLists == UNION {[1 .. n -> EmbedTexts] : n \in 0 .. MaxTexts}
BatchSizes == -1 .. MaxBatchSize

\* one embed_single call: state is new (task not run yet), inflight (waiting
\* for the provider) or done; requested tells whether it sent a request,
\* answer what the provider answered, after_success whether an earlier call for
\* the same text had returned a vector when this one started, overtook
\* whether its answer came while an earlier call of the list still waited
NewCall == [state |-> "new", requested |-> FALSE, answer |-> "none",
            after_success |-> FALSE, overtook |-> FALSE, result |-> NoVector]

\* range(0, len(texts), batch_size) raises ValueError on a zero step
RangeRaises(batch_size) == batch_size = 0

\* range(0, n, batch_size) has no element
RangeEmpty(n, batch_size) == batch_size < 0 \/ n = 0

\* the last index (1-based) of the group texts[i:i + batch_size]
GroupEndAll(i, batch_size, n) == n
GroupEnd(i, batch_size, n) == Min(i + batch_size, n)

Group(b) == (b.i + 1) .. GroupEnd(b.i, b.batch_size, Len(b.texts))

\* the start of embed_single up to its first suspension: a hit returns the
\* cached vector at once, a miss posts the request
StartCall(cache, text, earlier_success) ==
    IF TextHash(text) \in DOMAIN cache
      THEN [state |-> "done", requested |-> FALSE, answer |-> "none",
            after_success |-> earlier_success, overtook |-> FALSE,
            result |-> Some(cache[TextHash(text)])]
      ELSE [state |-> "inflight", requested |-> TRUE, answer |-> "none",
            after_success |-> earlier_success, overtook |-> FALSE,
            result |-> NoVector]

\* the rest of embed_single once the provider has answered
EmbedSingleMissNoStore(cache, text, outcome) ==
    [result |-> IF outcome = "ok" THEN Some(ProviderEmbedding(text)) ELSE NoVector,
     cache |-> cache]

FinishCall(cache, text, outcome) == EmbedSingleMiss(cache, text, outcome)

\* asyncio.gather(*tasks, return_exceptions=True) and the loop appending each
\* result: the group's results in task order
GatherReversed(cs, first, last) ==
    [k \in 1 .. (last - first + 1) |-> cs[last + 1 - k].result]
GatherAllOrNothing(cs, first, last) ==
    [k \in 1 .. (last - first + 1) |->
        IF \E j \in first .. last : cs[j].result.none THEN NoVector ELSE cs[first + k - 1].result]
Gather(cs, first, last) ==
    [k \in 1 .. (last - first + 1) |-> cs[first + k - 1].result]

InitEmbed ==
    /\ store = {}
    /\ embedding_cache = [h \in {} |-> <<>>]
    /\ ret = NoCall
    /\ batch = NoBatch
    /\ calls = <<>>
    /\ chunker = NoChunker
    /\ requests = NoRequests

\* embed_batch(texts, batch_size) up to its first await
EmbedBatchCall(texts, batch_size) ==
    /\ batch.pc = "idle"
    /\ batch' = [pc |-> IF RangeRaises(batch_size) THEN "raised"
                        ELSE IF RangeEmpty(Len(texts), batch_size) THEN "returned"
                        ELSE "gather",
                 texts |-> texts, batch_size |-> batch_size, i |-> 0, results |-> <<>>]
    /\ calls' = [k \in 1 .. Len(texts) |-> NewCall]
    /\ UNCHANGED <<store, embedding_cache, ret, chunker, requests>>

\* the tasks of the group run to their first suspension, before any answer
\* of the group is handled
StartGroup ==
    /\ batch.pc = "gather"
    /\ \A k \in Group(batch) : calls[k].state = "new"
    /\ calls' = [k \in DOMAIN calls |->
                    IF k \in Group(batch)
                      THEN StartCall(embedding_cache, batch.texts[k],
                                     \E j \in DOMAIN calls :
                                         /\ calls[j].state = "done" /\ ~calls[j].result.none
                                         /\ batch.texts[j] = batch.texts[k])
                      ELSE calls[k]]
    /\ UNCHANGED <<store, embedding_cache, ret, batch, chunker, requests>>

\* the provider answers the request of call k
ProviderAnswers(k, outcome) ==
    /\ batch.pc = "gather"
    /\ calls[k].state = "inflight"
    /\ LET e == FinishCall(embedding_cache, batch.texts[k], outcome)
       IN /\ embedding_cache' = e.cache
          /\ calls' = [calls EXCEPT ![k] = [@ EXCEPT !.state = "done", !.answer = outcome,
                                                       !.overtook = \E j \in 1 .. (k - 1) :
                                                                       calls[j].state = "inflight",
                                                       !.result = e.result]]
    /\ UNCHANGED <<store, ret, batch, chunker, requests>>

\* gather returns once every task of the group is done; the results are appended
GatherDone ==
    /\ batch.pc = "gather"
    /\ \A k \in Group(batch) : calls[k].state = "done"
    /\ batch' = [batch EXCEPT !.pc = "sleep",
                              !.results = @ \o Gather(calls, batch.i + 1,
                                                      GroupEnd(batch.i, batch.batch_size, Len(batch.texts)))]
    /\ UNCHANGED <<store, embedding_cache, ret, calls, chunker, requests>>

\* asyncio.sleep(0.1) is over: the next group, or the return
SleepDone ==
    /\ batch.pc = "sleep"
    /\ batch' = [batch EXCEPT !.i = batch.i + batch.batch_size,
                              !.pc = IF batch.i + batch.batch_size < Len(batch.texts)
                                       THEN "gather" ELSE "returned"]
    /\ UNCHANGED <<store, embedding_cache, ret, calls, chunker, requests>>

BatchCall == \E texts \in TextLists, batch_size \in BatchSizes : EmbedBatchCall(texts, batch_size)

Answer == \E k \in DOMAIN calls, outcome \in ProviderOutcomes : ProviderAnswers(k, outcome)

NextEmbed == BatchCall \/ StartGroup \/ Answer \/ GatherDone \/ SleepDone

SpecEmbed == InitEmbed /\ [][NextEmbed]_vars

----------------------------------------------------------------------------
(* Properties of the embedding service, checked under SpecEmbed.           *)

Done(k) == calls[k].state = "done"
Failed(k) == Done(k) /\ calls[k].requested /\ calls[k].answer # "ok"

\* C4 as stated: of any two finished embed_single calls for the same text only
\* one sent a request to the provider, and the second one sent none and
\* returned the cached vector.
C4_TwoCallsOneRequest ==
    \A j, k \in DOMAIN calls :
        (j < k /\ batch.texts[j] = batch.texts[k] /\ Done(j) /\ Done(k)) =>
            /\ ~calls[k].requested
            /\ calls[k].result = Some(ProviderEmbedding(batch.texts[k]))
            /\ Cardinality({c \in {j, k} : calls[c].requested}) = 1

\* C4 amended: a call of embed_single(T) that starts after an earlier call for
\* T has returned a vector sends no request and returns that vector.
C4_CallAfterSuccessHitsCache ==
    \A k \in DOMAIN calls :
        calls[k].after_success =>
            /\ ~calls[k].requested
            /\ Done(k)
            /\ calls[k].result = Some(ProviderEmbedding(batch.texts[k]))
            /\ calls[k].result.v = embedding_cache[TextHash(batch.texts[k])]

\* two calls for one text, the first answered by the provider, the second
\* started afterwards
C4_Witness ==
    \E j, k \in DOMAIN calls :
        /\ j < k /\ batch.texts[j] = batch.texts[k]
        /\ calls[j].requested /\ calls[j].answer = "ok"
        /\ calls[k].after_success /\ Done(k)

OneEntryPerText ==
    /\ Len(batch.results) = Len(batch.texts)
    /\ \A k \in DOMAIN batch.results :
          /\ batch.results[k] = calls[k].result
          /\ batch.results[k] \in {NoVector, Some(ProviderEmbedding(batch.texts[k]))}

C5_EveryBatchSize ==
    batch.pc \in {"returned", "raised"} => (batch.pc = "returned" /\ OneEntryPerText)

\* C5 amended: for every batch_size >= 1 embed_batch returns one entry per
\* text, entry i being the outcome of the call for texts[i], whatever order
\* the provider answered in.
C5_OneEntryPerText ==
    batch.batch_size >= 1 =>
        /\ batch.pc # "raised"
        /\ batch.pc = "returned" => OneEntryPerText

\* three texts in two groups; in the first group the texts differ and the
\* answer to the second request came before the answer to the first
C5_Witness ==
    /\ batch.pc = "returned"
    /\ Len(batch.texts) = 3 /\ batch.batch_size = 2
    /\ batch.texts[1] # batch.texts[2]
    /\ calls[2].overtook
    /\ \A k \in 1 .. 3 : ~batch.results[k].none
    /\ batch.results[1] # batch.results[2]

\* C6: a failed provider call marks exactly its own entry: once a call has
\* failed the batch still runs on and returns, the entry of every failed call
\* is None and every other entry is the vector of its own text.
C6_FailureIsPerItem ==
    (\E k \in DOMAIN calls : Failed(k)) =>
        /\ batch.pc \in {"gather", "sleep", "returned"}
        /\ batch.pc # "returned" => ENABLED NextEmbed
        /\ batch.pc = "returned" =>
              /\ Len(batch.results) = Len(batch.texts)
              /\ \A k \in DOMAIN calls :
                    IF Failed(k) THEN batch.results[k] = NoVector
                    ELSE batch.results[k] = Some(ProviderEmbedding(batch.texts[k]))

\* three texts, only the second provider call failed: only entry 2 is None
C6_Witness ==
    /\ batch.pc = "returned"
    /\ Len(batch.texts) = 3
    /\ \A k \in 1 .. 3 : calls[k].requested
    /\ Failed(2) /\ ~Failed(1) /\ ~Failed(3)
    /\ batch.results[2] = NoVector
    /\ ~batch.results[1].none /\ ~batch.results[3].none

\* C7: the requests in flight never number more than batch_size; they all
\* belong to the current group, which is entered only after the previous
\* group's calls are all done and the pause is over, and no call of a later
\* group has started.
C7_InFlightBounded ==
    LET inflight == {k \in DOMAIN calls : calls[k].state = "inflight"}
    IN /\ inflight # {} => Cardinality(inflight) <= batch.batch_size
       /\ \A k \in inflight : batch.pc = "gather" /\ batch.i < k /\ k <= batch.i + batch.batch_size
       /\ \A k \in DOMAIN calls : calls[k].state # "new" => k <= batch.i + batch.batch_size
       /\ \A k \in DOMAIN calls : (k <= batch.i /\ batch.batch_size >= 1) => Done(k)

\* batch_size requests in flight while a later group waits
C7_Witness ==
    /\ batch.pc = "gather"
    /\ batch.batch_size = 2
    /\ Cardinality({k \in DOMAIN calls : calls[k].state = "inflight"}) = 2
    /\ \E k \in DOMAIN calls : calls[k].state = "new"

----------------------------------------------------------------------------
(* split_code_into_chunks. A text is a sequence of characters.             *)

NewLine == "\n"
Chars == {"x", NewLine}

\* 1 token ~ 4 characters
CharsPerToken == 4

\* every text of at most n characters
TextsUpTo(n) == UNION {[1 .. k -> Chars] : k \in 0 .. n}

\* the index of the first line break of s, 0 when it has none
RECURSIVE FirstBreak(_, _)
FirstBreak(s, k) ==
    IF k > Len(s) THEN 0
    ELSE IF s[k] = NewLine THEN k
    ELSE FirstBreak(s, k + 1)

\* code.split('\n')
RECURSIVE StrSplit(_)
StrSplit(s) ==
    LET k == FirstBreak(s, 1)
    IN IF k = 0 THEN <<s>>
       ELSE <<SubSeq(s, 1, k - 1)>> \o StrSplit(SubSeq(s, k + 1, Len(s)))

\* '\n'.join(parts)
RECURSIVE StrJoin(_)
StrJoin(parts) ==
    IF parts = <<>> THEN <<>>
    ELSE IF Len(parts) = 1 THEN parts[1]
    ELSE parts[1] \o <<NewLine>> \o StrJoin(Tail(parts))

\* line_tokens = len(line) // 4
LineTokens(line) == Len(line) \div CharsPerToken

\* the loop's locals before the first line
ChunkStart == [chunks |-> <<>>, current_chunk |-> <<>>, current_length |-> 0]

\* one pass of "for line in lines"
ChunkStepDropLine(st, line, max_tokens) ==
    IF st.current_length + LineTokens(line) > max_tokens /\ st.current_chunk # <<>>
      THEN [chunks |-> Append(st.chunks, StrJoin(st.current_chunk)),
            current_chunk |-> <<>>,
            current_length |-> 0]
      ELSE [chunks |-> st.chunks,
            current_chunk |-> Append(st.current_chunk, line),
            current_length |-> st.current_length + LineTokens(line)]

ChunkStepCloseAtLimit(st, line, max_tokens) ==
    IF st.current_length + LineTokens(line) >= max_tokens /\ st.current_chunk # <<>>
      THEN [chunks |-> Append(st.chunks, StrJoin(st.current_chunk)),
            current_chunk |-> <<line>>,
            current_length |-> LineTokens(line)]
      ELSE [chunks |-> st.chunks,
            current_chunk |-> Append(st.current_chunk, line),
            current_length |-> st.current_length + LineTokens(line)]

ChunkStep(st, line, max_tokens) ==
    IF st.current_length + LineTokens(line) > max_tokens /\ st.current_chunk # <<>>
      THEN [chunks |-> Append(st.chunks, StrJoin(st.current_chunk)),
            current_chunk |-> <<line>>,
            current_length |-> LineTokens(line)]
      ELSE [chunks |-> st.chunks,
            current_chunk |-> Append(st.current_chunk, line),
            current_length |-> st.current_length + LineTokens(line)]

RECURSIVE ChunkLoop(_, _, _)
ChunkLoop(st, lines, max_tokens) ==
    IF lines = <<>> THEN st
    ELSE ChunkLoop(ChunkStep(st, Head(lines), max_tokens), Tail(lines), max_tokens)

\* "if current_chunk: chunks.append(..)" and the return
ChunkFinishNoFlush(st) == st.chunks
ChunkFinish(st) ==
    IF st.current_chunk # <<>> THEN Append(st.chunks, StrJoin(st.current_chunk)) ELSE st.chunks

SplitCodeIntoChunks(code, max_tokens) ==
    ChunkFinish(ChunkLoop(ChunkStart, StrSplit(code), max_tokens))

----------------------------------------------------------------------------
(* SpecChunk: split_code_into_chunks called once on a bounded text.        *)

InitChunk ==
    /\ store = {}
    /\ embedding_cache = [h \in {} |-> <<>>]
    /\ ret = NoCall
    /\ batch = NoBatch
    /\ calls = <<>>
    /\ \E code \in TextsUpTo(MaxCodeLen), max_tokens \in 1 .. MaxTokens :
          chunker = [pc |-> "called", code |-> code, max_tokens |-> max_tokens, chunks |-> <<>>]
    /\ requests = NoRequests

SplitCall ==
    /\ chunker.pc = "called"
    /\ chunker' = [chunker EXCEPT !.pc = "returned",
                                  !.chunks = SplitCodeIntoChunks(chunker.code, chunker.max_tokens)]
    /\ UNCHANGED <<store, embedding_cache, ret, batch, calls, requests>>

NextChunk == SplitCall

SpecChunk == InitChunk /\ [][NextChunk]_vars

\* C8: joining the returned chunks with a line break between consecutive
\* chunks gives back the text, so no line is split, dropped, duplicated or
\* reordered (max_tokens > 0).
C8_JoinRestoresText ==
    (chunker.pc = "returned" /\ chunker.max_tokens > 0) =>
        StrJoin(chunker.chunks) = chunker.code

\* a text of three lines split into more than one chunk
C8_Witness ==
    /\ chunker.pc = "returned"
    /\ Len(chunker.chunks) >= 2
    /\ Len(StrSplit(chunker.code)) >= 3
    /\ StrJoin(chunker.chunks) = chunker.code

\* C9: a non-empty text yields at least one chunk, also when its single line
\* alone costs more than max_tokens.
C9_AtLeastOneChunk ==
    (chunker.pc = "returned" /\ chunker.code # <<>>) => Len(chunker.chunks) >= 1

\* a single line that costs more than max_tokens comes back as one chunk
C9_Witness ==
    /\ chunker.pc = "returned"
    /\ Len(StrSplit(chunker.code)) = 1
    /\ LineTokens(chunker.code) > chunker.max_tokens
    /\ chunker.chunks = <<chunker.code>>

\* the estimated token cost of a sequence of lines
RECURSIVE TokenCost(_)
TokenCost(lines) ==
    IF lines = <<>> THEN 0 ELSE (Len(Head(lines)) \div 4) + TokenCost(Tail(lines))

\* C24: a returned chunk of two or more lines costs at most max_tokens (so
\* a chunk that costs more is a single line), and a chunk followed by
\* another was closed because its cost plus that of the next chunk's first
\* line is above max_tokens.
C24_ChunksWithinBudget ==
    chunker.pc = "returned" =>
        /\ \A i \in DOMAIN chunker.chunks :
              LET lines == StrSplit(chunker.chunks[i])
              IN /\ Len(lines) >= 2 => TokenCost(lines) <= chunker.max_tokens
                 /\ TokenCost(lines) > chunker.max_tokens => Len(lines) = 1
        /\ \A i \in DOMAIN chunker.chunks :
              i < Len(chunker.chunks) =>
                  TokenCost(StrSplit(chunker.chunks[i]))
                    + TokenCost(<<Head(StrSplit(chunker.chunks[i + 1]))>>) > chunker.max_tokens

\* a chunk of two lines that costs exactly max_tokens, closed by the line
\* after it
C24_Witness ==
    /\ chunker.pc = "returned"
    /\ Len(chunker.chunks) = 2
    /\ Len(StrSplit(chunker.chunks[1])) = 2
    /\ TokenCost(StrSplit(chunker.chunks[1])) = chunker.max_tokens
    /\ TokenCost(StrSplit(chunker.chunks[2])) >= 1

====
